---- MODULE Spec2Model ----
(***************************************************************************)
(* Model of src/twitter.js: the Twitter wrapper class.  Nine facade        *)
(* methods forward to client.get / client.post; uploadPhoto drives the     *)
(* three-step media upload (INIT, APPEND, FINALIZE) as a promise chain.    *)
(*                                                                         *)
(* JavaScript values are records tagged with jstype.  A promise is a       *)
(* record with a state ("pending", "fulfilled", "rejected") and a value.   *)
(* The transport (the `twitter` npm client) is the environment: it settles *)
(* each pending call with any response or any error.                       *)
(***************************************************************************)
EXTENDS Integers, Sequences, FiniteSets, TLC

\* Number of uploadPhoto invocations that may be alive at the same time.
NumRuns == 2
\* Number of facade method invocations in a behaviour of SpecFacade.
MaxFacadeCalls == 2

Runs == 1..NumRuns

----------------------------------------------------------------------------
\* JavaScript values

Undefined == [jstype |-> "undefined"]
Str(s) == [jstype |-> "string", str |-> s]
Num(n) == [jstype |-> "number", num |-> n]
Buf(b) == [jstype |-> "buffer", bytes |-> b]
Err(n) == [jstype |-> "error", name |-> n]
Obj(p) == [jstype |-> "object", props |-> p]

IsNullish(v) == v.jstype = "undefined"

\* v.k for a non-nullish v: the property, or undefined when it is absent.
GetProp(v, k) ==
  IF v.jstype = "object" /\ k \in DOMAIN v.props THEN v.props[k] ELSE Undefined

TypeError == Err("TypeError")

----------------------------------------------------------------------------
\* The file system seen by require('fs')

Paths == {"a.jpg", "big.jpg", "gone.jpg"}

FileBytes(p) ==
  IF p = "a.jpg" THEN <<7>> ELSE <<7, 7, 7, 7, 7, 7>>

FileExists(p) == p \in {"a.jpg", "big.jpg"}

\* Outcomes of fs.readFileSync(p): the buffer, or a thrown error.
readFileSync(p) ==
  IF p.jstype # "string" THEN {[ok |-> FALSE, value |-> TypeError]}
  ELSE IF FileExists(p.str)
  THEN {[ok |-> TRUE, value |-> Buf(FileBytes(p.str))]}
  ELSE {[ok |-> FALSE, value |-> Err("ENOENT")]}

\* Outcomes of fs.statSync(p).size: the size, or a thrown error (the file can
\* disappear between the read and the size query).
statSync(p) ==
  IF p.jstype # "string" THEN {[ok |-> FALSE, value |-> TypeError]}
  ELSE IF FileExists(p.str)
  THEN {[ok |-> TRUE, value |-> Num(Len(FileBytes(p.str)))],
        [ok |-> FALSE, value |-> Err("ENOENT")]}
  ELSE {[ok |-> FALSE, value |-> Err("ENOENT")]}

----------------------------------------------------------------------------
\* The transport: client.get / client.post return a pending promise

Pending == [state |-> "pending", value |-> Undefined]

execute(path, options) ==
  [verb |-> "get", path |-> path, options |-> options, promise |-> Pending]

executePost(path, options) ==
  [verb |-> "post", path |-> path, options |-> options, promise |-> Pending]

\* What the remote service may answer a call with: a session identifier, a
\* body without one or no body to INIT, no body to APPEND, the media's
\* metadata to FINALIZE; to a facade call, a body or none.
Answers(call) ==
  LET cmd == GetProp(call.options, "command") IN
    IF call.path # "media/upload"
    THEN { Obj("id_str" :> Str("t1")), Undefined }
    ELSE IF cmd = Str("INIT")
    THEN { Obj("media_id_string" :> Str("m1")),
           Obj("media_id_string" :> Str("m2")),
           Obj("expires_after_secs" :> Num(60)),
           Undefined }
    ELSE IF cmd = Str("APPEND")
    THEN { Undefined }
    ELSE { Obj("media_key" :> Str("k1")) }

\* The errors a call may fail with.
Errors == { Err("ETIMEDOUT") }

----------------------------------------------------------------------------
VARIABLES
  args,       \* args[r]: the options uploadPhoto was called with
  ret,        \* ret[r]: "none", "threw" or "promise": how uploadPhoto returned
  thrown,     \* thrown[r]: the error uploadPhoto threw synchronously
  mediaType,  \* closure constants and the closure variable mediaId of run r
  mediaData,
  mediaSize,
  mediaId,
  calls,      \* calls[r]: the transport calls run r issued, in issue order
  chain,      \* chain[r][i]: the promise returned by the i-th link of the chain
  console,    \* console[r]: the values run r passed to console.log
  trace,      \* trace[r]: the fs and transport operations of run r, in order
  facade,     \* facade method invocations: method, options, returned promise
  requests    \* transport calls issued by facade methods, in issue order

uvars == <<args, ret, thrown, mediaType, mediaData, mediaSize, mediaId,
           calls, chain, console, trace>>
fvars == <<facade, requests>>
vars == <<args, ret, thrown, mediaType, mediaData, mediaSize, mediaId,
          calls, chain, console, trace, facade, requests>>

\* A link of the chain: a promise, and the call whose promise it is locked to
\* (0 when none).
Link == [state |-> "pending", value |-> Undefined, lockedTo |-> 0]

Init ==
  /\ args = [r \in Runs |-> Undefined]
  /\ ret = [r \in Runs |-> "none"]
  /\ thrown = [r \in Runs |-> Undefined]
  /\ mediaType = [r \in Runs |-> Undefined]
  /\ mediaData = [r \in Runs |-> Undefined]
  /\ mediaSize = [r \in Runs |-> Undefined]
  /\ mediaId = [r \in Runs |-> Undefined]
  /\ calls = [r \in Runs |-> <<>>]
  /\ chain = [r \in Runs |-> [i \in 1..3 |-> Link]]
  /\ console = [r \in Runs |-> <<>>]
  /\ trace = [r \in Runs |-> <<>>]
  /\ facade = <<>>
  /\ requests = <<>>

----------------------------------------------------------------------------
\* uploadPhoto: the synchronous part and the three helpers

UploadPath == "media/upload"

initUpload(size, type) ==
  executePost(UploadPath,
    Obj(("command" :> Str("INIT")) @@ ("total_bytes" :> size)
        @@ ("media_type" :> type)))

\* appendUpload sending only the first byte of the buffer as segment 0.
appendUploadFirstChunk(r, id) ==
  executePost(UploadPath,
    Obj(("command" :> Str("APPEND")) @@ ("media_id" :> id)
        @@ ("media" :> Buf(SubSeq(mediaData[r].bytes, 1, 1)))
        @@ ("segment_index" :> Num(0))))

appendUpload(r, id) ==
  executePost(UploadPath,
    Obj(("command" :> Str("APPEND")) @@ ("media_id" :> id)
        @@ ("media" :> mediaData[r]) @@ ("segment_index" :> Num(0))))

\* finalizeUpload handed the APPEND response in place of the identifier, as
\* .then(finalizeUpload) would.
finalizeUploadResponse(r, id) ==
  executePost(UploadPath,
    Obj(("command" :> Str("FINALIZE"))
        @@ ("media_id" :> calls[r][2].promise.value)))

finalizeUpload(r, id) ==
  executePost(UploadPath,
    Obj(("command" :> Str("FINALIZE")) @@ ("media_id" :> id)))

\* uploadPhoto as an async function: an error of the synchronous part rejects
\* the returned promise, which the terminal handler logs and swallows.
ThrowsAsync(r, err, tr) ==
  /\ ret' = [ret EXCEPT ![r] = "promise"]
  /\ chain' = [chain EXCEPT ![r] =
       [i \in 1..3 |->
          IF i = 3 THEN [state |-> "fulfilled", value |-> Undefined, lockedTo |-> 0]
          ELSE [state |-> "rejected", value |-> err, lockedTo |-> 0]]]
  /\ console' = [console EXCEPT ![r] = <<err>>]
  /\ trace' = [trace EXCEPT ![r] = tr]
  /\ UNCHANGED <<thrown, mediaType, mediaData, mediaSize, mediaId, calls>>

\* uploadPhoto throws err after the operations tr; its locals are dropped and
\* no promise is returned.
Throws(r, err, tr) ==
  /\ ret' = [ret EXCEPT ![r] = "threw"]
  /\ thrown' = [thrown EXCEPT ![r] = err]
  /\ trace' = [trace EXCEPT ![r] = tr]
  /\ UNCHANGED <<mediaType, mediaData, mediaSize, mediaId, calls, chain, console>>

\* uploadPhoto reaches `return initUpload()...`: INIT is issued and the chain
\* of three links is returned.
Starts(r, type, data, size) ==
  /\ ret' = [ret EXCEPT ![r] = "promise"]
  /\ mediaType' = [mediaType EXCEPT ![r] = type]
  /\ mediaData' = [mediaData EXCEPT ![r] = data]
  /\ mediaSize' = [mediaSize EXCEPT ![r] = size]
  /\ calls' = [calls EXCEPT ![r] = <<initUpload(size, type)>>]
  /\ trace' = [trace EXCEPT ![r] = <<"readFileSync", "statSync", "post">>]
  /\ UNCHANGED <<thrown, mediaId, chain, console>>

uploadPhoto(r, options) ==
  /\ ret[r] = "none"
  /\ args' = [args EXCEPT ![r] = options]
  /\ UNCHANGED fvars
  /\ IF IsNullish(options)
     THEN Throws(r, TypeError, <<>>)
     ELSE \E rd \in readFileSync(GetProp(options, "path_to_photo")) :
            IF ~rd.ok
            THEN Throws(r, rd.value, <<"readFileSync">>)
            ELSE \E st \in statSync(GetProp(options, "path_to_photo")) :
                   IF ~st.ok
                   THEN Throws(r, st.value, <<"readFileSync", "statSync">>)
                   ELSE Starts(r, GetProp(options, "media_type"),
                               rd.value, st.value)

\* What callers pass to uploadPhoto.
UploadOptions ==
  { Obj(("media_type" :> Str("image/jpeg")) @@ ("path_to_photo" :> Str(p))) :
      p \in Paths } \cup {Undefined}

----------------------------------------------------------------------------
\* The transport settles a pending call of run r

TransportResolve(r, c, v) ==
  /\ c \in DOMAIN calls[r]
  /\ calls[r][c].promise.state = "pending"
  /\ v \in Answers(calls[r][c])
  /\ calls' = [calls EXCEPT ![r][c].promise =
                 [state |-> "fulfilled", value |-> v]]
  /\ UNCHANGED <<args, ret, thrown, mediaType, mediaData, mediaSize, mediaId,
                 chain, console, trace>>
  /\ UNCHANGED fvars

TransportReject(r, c, e) ==
  /\ c \in DOMAIN calls[r]
  /\ calls[r][c].promise.state = "pending"
  /\ calls' = [calls EXCEPT ![r][c].promise =
                 [state |-> "rejected", value |-> e]]
  /\ UNCHANGED <<args, ret, thrown, mediaType, mediaData, mediaSize, mediaId,
                 chain, console, trace>>
  /\ UNCHANGED fvars

----------------------------------------------------------------------------
\* The promise chain  initUpload().then(f1).then(f2).catch(f3)

\* The outcome the callback of link i handles: .then(f) registers f for
\* fulfilment only, .catch(f) for rejection only.
Handles(i) == IF i = 3 THEN "rejected" ELSE "fulfilled"

\* The promise of link i; link 0 is the promise initUpload() returned.  A link
\* whose callback returned a call's promise is locked to it and settles as it
\* does; a link with no callback for its source's outcome settles as its
\* source does.
RECURSIVE LinkPromise(_, _)
LinkPromise(r, i) ==
  IF i = 0
  THEN IF calls[r] = <<>> THEN Pending ELSE calls[r][1].promise
  ELSE IF chain[r][i].lockedTo # 0
  THEN calls[r][chain[r][i].lockedTo].promise
  ELSE IF chain[r][i].state # "pending"
  THEN [state |-> chain[r][i].state, value |-> chain[r][i].value]
  ELSE IF LinkPromise(r, i - 1).state = Handles(i)
  THEN Pending
  ELSE LinkPromise(r, i - 1)

\* The promise link i reacts to.
Source(r, i) == LinkPromise(r, i - 1)

\* The callback of link i is due: its source settled with the outcome it
\* handles and it has not run yet.
Ready(r, i) ==
  /\ ret[r] = "promise"
  /\ chain[r][i].state = "pending"
  /\ chain[r][i].lockedTo = 0
  /\ Source(r, i).state = Handles(i)

Settle(r, i, st, v) ==
  chain' = [chain EXCEPT ![r][i] = [state |-> st, value |-> v, lockedTo |-> 0]]

\* Link i's callback returned the promise of a call it has just issued.
Issue(r, i, call) ==
  /\ calls' = [calls EXCEPT ![r] = Append(@, call)]
  /\ chain' = [chain EXCEPT ![r][i].lockedTo = Len(calls[r]) + 1]
  /\ trace' = [trace EXCEPT ![r] = Append(@, "post")]

\* The first callback without its `return`: APPEND is issued but the link is
\* fulfilled with undefined at once.
thenInitNoReturn(r) ==
  /\ Ready(r, 1)
  /\ LET response == Source(r, 1).value IN
       IF IsNullish(response)
       THEN /\ Settle(r, 1, "rejected", TypeError)
            /\ UNCHANGED <<mediaId, calls, trace>>
       ELSE /\ mediaId' = [mediaId EXCEPT ![r] = GetProp(response, "media_id_string")]
            /\ calls' = [calls EXCEPT ![r] =
                 Append(@, appendUpload(r, GetProp(response, "media_id_string")))]
            /\ trace' = [trace EXCEPT ![r] = Append(@, "post")]
            /\ Settle(r, 1, "fulfilled", Undefined)
  /\ UNCHANGED <<args, ret, thrown, mediaType, mediaData, mediaSize, console>>
  /\ UNCHANGED fvars

\* The first callback with mediaId declared at module scope: one variable
\* shared by every run, read by each run's FINALIZE.
thenInitShared(r) ==
  /\ Ready(r, 1)
  /\ LET response == Source(r, 1).value IN
       IF IsNullish(response)
       THEN /\ Settle(r, 1, "rejected", TypeError)
            /\ UNCHANGED <<mediaId, calls, trace>>
       ELSE /\ mediaId' = [s \in Runs |-> GetProp(response, "media_id_string")]
            /\ Issue(r, 1, appendUpload(r, GetProp(response, "media_id_string")))
  /\ UNCHANGED <<args, ret, thrown, mediaType, mediaData, mediaSize, console>>
  /\ UNCHANGED fvars

\* .then(response => { mediaId = response.media_id_string;
\*                     return appendUpload(mediaId); })
\* Reading a property of an undefined response throws a TypeError, which
\* rejects the link.
thenInit(r) ==
  /\ Ready(r, 1)
  /\ LET response == Source(r, 1).value IN
       IF IsNullish(response)
       THEN /\ Settle(r, 1, "rejected", TypeError)
            /\ UNCHANGED <<mediaId, calls, trace>>
       ELSE /\ mediaId' = [mediaId EXCEPT ![r] = GetProp(response, "media_id_string")]
            /\ Issue(r, 1, appendUpload(r, GetProp(response, "media_id_string")))
  /\ UNCHANGED <<args, ret, thrown, mediaType, mediaData, mediaSize, console>>
  /\ UNCHANGED fvars

\* The second callback registered for rejection too, as .then(f, f) would.
thenAppendOnAny(r) ==
  /\ ret[r] = "promise"
  /\ chain[r][2].state = "pending"
  /\ chain[r][2].lockedTo = 0
  /\ Source(r, 2).state # "pending"
  /\ Issue(r, 2, finalizeUpload(r, mediaId[r]))
  /\ UNCHANGED <<args, ret, thrown, mediaType, mediaData, mediaSize, mediaId,
                 console>>
  /\ UNCHANGED fvars

\* The second callback with a block body and no `return`: FINALIZE is issued
\* but the link is fulfilled with undefined at once.
thenAppendNoReturn(r) ==
  /\ Ready(r, 2)
  /\ calls' = [calls EXCEPT ![r] = Append(@, finalizeUpload(r, mediaId[r]))]
  /\ trace' = [trace EXCEPT ![r] = Append(@, "post")]
  /\ Settle(r, 2, "fulfilled", Undefined)
  /\ UNCHANGED <<args, ret, thrown, mediaType, mediaData, mediaSize, mediaId,
                 console>>
  /\ UNCHANGED fvars

\* .then(response => finalizeUpload(mediaId))
thenAppend(r) ==
  /\ Ready(r, 2)
  /\ Issue(r, 2, finalizeUpload(r, mediaId[r]))
  /\ UNCHANGED <<args, ret, thrown, mediaType, mediaData, mediaSize, mediaId,
                 console>>
  /\ UNCHANGED fvars

\* The terminal handler logging and rethrowing the error.
catchLogRethrow(r) ==
  /\ Ready(r, 3)
  /\ console' = [console EXCEPT ![r] = Append(@, Source(r, 3).value)]
  /\ Settle(r, 3, "rejected", Source(r, 3).value)
  /\ UNCHANGED <<args, ret, thrown, mediaType, mediaData, mediaSize, mediaId,
                 calls, trace>>
  /\ UNCHANGED fvars

\* .catch(err => console.log(err)): console.log returns undefined, which
\* fulfils the link.
catchLog(r) ==
  /\ Ready(r, 3)
  /\ console' = [console EXCEPT ![r] = Append(@, Source(r, 3).value)]
  /\ Settle(r, 3, "fulfilled", Undefined)
  /\ UNCHANGED <<args, ret, thrown, mediaType, mediaData, mediaSize, mediaId,
                 calls, trace>>
  /\ UNCHANGED fvars

Next ==
  \/ \E r \in Runs, o \in UploadOptions : uploadPhoto(r, o)
  \/ \E r \in Runs : \E c \in DOMAIN calls[r] :
       \E v \in Answers(calls[r][c]) : TransportResolve(r, c, v)
  \/ \E r \in Runs : \E c \in DOMAIN calls[r], e \in Errors :
       TransportReject(r, c, e)
  \/ \E r \in Runs : thenInit(r)
  \/ \E r \in Runs : thenAppend(r)
  \/ \E r \in Runs : catchLog(r)

Spec == Init /\ [][Next]_vars

----------------------------------------------------------------------------
\* The facade methods

getRetweeters(options) == execute("statuses/retweeters/ids", options)
getRetweets(options) == execute("statuses/retweets", options)
showTweet(options) == execute("statuses/show", options)
showUserTweets(options) == execute("statuses/user_timeline", options)
searchTweets(options) == execute("search/tweets", options)
searchUsers(options) == execute("users/search", options)
showUser(options) == execute("users/show", options)
postStatus(options) == executePost("statuses/update", options)
\* sendMessage on the retired endpoint path.
sendMessageOldPath(options) == executePost("direct_messages/new", options)
sendMessage(options) == executePost("direct_messages/events/new", options)

Methods ==
  {"getRetweeters", "getRetweets", "showTweet", "showUserTweets",
   "searchTweets", "searchUsers", "showUser", "postStatus", "sendMessage"}

\* The transport call method m makes; its promise is what m returns.
Dispatch(m, options) ==
  CASE m = "getRetweeters" -> getRetweeters(options)
    [] m = "getRetweets" -> getRetweets(options)
    [] m = "showTweet" -> showTweet(options)
    [] m = "showUserTweets" -> showUserTweets(options)
    [] m = "searchTweets" -> searchTweets(options)
    [] m = "searchUsers" -> searchUsers(options)
    [] m = "showUser" -> showUser(options)
    [] m = "postStatus" -> postStatus(options)
    [] m = "sendMessage" -> sendMessage(options)

\* What callers pass to a facade method.
FacadeOptions == { Obj("id" :> Str("123")), Undefined }

\* A caller invokes facade method m: the call is issued and its promise (the
\* request's index stands for it) is returned.
Invoke(m, options) ==
  /\ Len(facade) < MaxFacadeCalls
  /\ requests' = Append(requests, Dispatch(m, options))
  /\ facade' = Append(facade, [method |-> m, options |-> options,
                               returned |-> Len(requests) + 1])
  /\ UNCHANGED uvars

FacadeResolve(k, v) ==
  /\ k \in DOMAIN requests
  /\ requests[k].promise.state = "pending"
  /\ v \in Answers(requests[k])
  /\ requests' = [requests EXCEPT ![k].promise =
                    [state |-> "fulfilled", value |-> v]]
  /\ UNCHANGED <<facade, uvars>>

FacadeReject(k, e) ==
  /\ k \in DOMAIN requests
  /\ requests[k].promise.state = "pending"
  /\ requests' = [requests EXCEPT ![k].promise =
                    [state |-> "rejected", value |-> e]]
  /\ UNCHANGED <<facade, uvars>>

NextFacade ==
  \/ \E m \in Methods, o \in FacadeOptions : Invoke(m, o)
  \/ \E k \in DOMAIN requests : \E v \in Answers(requests[k]) :
       FacadeResolve(k, v)
  \/ \E k \in DOMAIN requests, e \in Errors : FacadeReject(k, e)

SpecFacade == Init /\ [][NextFacade]_vars

----------------------------------------------------------------------------
\* Properties of uploadPhoto

Command(call) == GetProp(call.options, "command")
CommandOrder == <<Str("INIT"), Str("APPEND"), Str("FINALIZE")>>
State(r, i) == calls[r][i].promise.state
Result(r, i) == calls[r][i].promise.value
Returned(r) == LinkPromise(r, 3)
PathArg(r) == GetProp(args[r], "path_to_photo")

\* C1: the write calls of a run are issued in the order INIT, APPEND,
\* FINALIZE, each one only after the previous call's promise has resolved, so
\* at most one call of the run is in flight at any moment.
C1_StrictChain ==
  \A r \in Runs :
    /\ Len(calls[r]) <= 3
    /\ \A i \in DOMAIN calls[r] :
         /\ calls[r][i].verb = "post"
         /\ Command(calls[r][i]) = CommandOrder[i]
         /\ i > 1 => State(r, i - 1) = "fulfilled"
    /\ \A i \in DOMAIN calls[r] : \A j \in DOMAIN calls[r] :
         (State(r, i) = "pending" /\ State(r, j) = "pending") => i = j

C1_Witness ==
  \E r \in Runs : Len(calls[r]) = 3 /\ State(r, 3) = "pending"

\* C2: if INIT resolves with a response that has no media_id_string field,
\* APPEND is never issued (and so neither is FINALIZE).
C2_NoSessionNoAppend ==
  \A r \in Runs :
    ( /\ Len(calls[r]) >= 1
      /\ State(r, 1) = "fulfilled"
      /\ GetProp(Result(r, 1), "media_id_string") = Undefined )
    => Len(calls[r]) = 1

\* C3: a rejected write call is the last call of its run: after a rejected
\* INIT neither APPEND nor FINALIZE is issued, after a rejected APPEND no
\* FINALIZE is issued.
C3_RejectStops ==
  \A r \in Runs : \A i \in DOMAIN calls[r] :
    State(r, i) = "rejected" => Len(calls[r]) = i

C3_Witness ==
  \E r \in Runs :
    /\ Len(calls[r]) = 2
    /\ State(r, 2) = "rejected"
    /\ Returned(r).state # "pending"

\* C4: the media_id of APPEND and of FINALIZE is the media_id_string of the
\* response of the same run's INIT.
C4_SessionId ==
  \A r \in Runs : \A i \in DOMAIN calls[r] :
    i >= 2 =>
      /\ State(r, 1) = "fulfilled"
      /\ GetProp(calls[r][i].options, "media_id")
           = GetProp(Result(r, 1), "media_id_string")

C4_Witness ==
  \E r \in Runs :
    /\ Len(calls[r]) = 3
    /\ GetProp(calls[r][2].options, "media_id") = Str("m2")
    /\ GetProp(calls[r][3].options, "media_id") = Str("m2")

\* C5: when a write call rejects, the terminal handler logs the error exactly
\* once, the returned promise is fulfilled with undefined and never rejected,
\* and no command is issued again.
C5_Swallowed ==
  \A r \in Runs :
    /\ Returned(r).state # "rejected"
    /\ Len(console[r]) <= 1
    /\ \A i \in DOMAIN calls[r] : \A j \in DOMAIN calls[r] :
         i # j => Command(calls[r][i]) # Command(calls[r][j])
    /\ \A i \in DOMAIN calls[r] :
         State(r, i) = "rejected" =>
           /\ Returned(r).state = "pending" => console[r] = <<>>
           /\ Returned(r).state = "fulfilled" =>
                /\ Returned(r).value = Undefined
                /\ console[r] = <<Result(r, i)>>

C5_Witness ==
  \E r \in Runs :
    /\ Len(calls[r]) = 3
    /\ State(r, 3) = "rejected"
    /\ Returned(r).state = "fulfilled"
    /\ console[r] = <<Result(r, 3)>>

\* C6: when the three write calls resolve, the returned promise is fulfilled
\* with the value FINALIZE resolved with.
C6_FinalizeResult ==
  \A r \in Runs :
    ( /\ Len(calls[r]) = 3
      /\ \A i \in 1..3 : State(r, i) = "fulfilled"
      /\ Returned(r).state # "pending" )
    => /\ Returned(r).state = "fulfilled"
       /\ Returned(r).value = Result(r, 3)

C6_Witness ==
  \E r \in Runs :
    /\ Len(calls[r]) = 3
    /\ \A i \in 1..3 : State(r, i) = "fulfilled"
    /\ Returned(r).state = "fulfilled"
    /\ Result(r, 3) # Result(r, 1)
    /\ Result(r, 3) # Result(r, 2)
    /\ console[r] = <<>>

\* C9: every command is issued at most once, at most three calls in all, and
\* APPEND carries segment_index 0 and the whole buffer of the file.
C9_SingleSegment ==
  \A r \in Runs :
    /\ Len(calls[r]) <= 3
    /\ \A i \in DOMAIN calls[r] :
         /\ \A j \in DOMAIN calls[r] :
              Command(calls[r][j]) = Command(calls[r][i]) => j = i
         /\ Command(calls[r][i]) = Str("APPEND") =>
              /\ GetProp(calls[r][i].options, "segment_index") = Num(0)
              /\ GetProp(calls[r][i].options, "media")
                   = Buf(FileBytes(PathArg(r).str))

C9_Witness ==
  \E r \in Runs :
    /\ PathArg(r) = Str("big.jpg")
    /\ Len(calls[r]) >= 2
    /\ Len(GetProp(calls[r][2].options, "media").bytes) > 1

\* C10: the file is read and its size queried before any transport call; when
\* either fails no call is ever issued and the error is thrown synchronously,
\* neither logged nor turned into a fulfilled promise.
C10_ReadBeforeSend ==
  \A r \in Runs :
    /\ \A k \in DOMAIN trace[r] :
         trace[r][k] = "post" =>
           /\ k >= 3
           /\ trace[r][1] = "readFileSync"
           /\ trace[r][2] = "statSync"
    /\ calls[r] # <<>> =>
         /\ mediaData[r] = Buf(FileBytes(PathArg(r).str))
         /\ mediaSize[r] = Num(Len(FileBytes(PathArg(r).str)))
    /\ (ret[r] # "none" /\ Len(trace[r]) < 3) =>
         /\ ret[r] = "threw"
         /\ thrown[r].jstype = "error"
         /\ calls[r] = <<>>
         /\ console[r] = <<>>
         /\ \A i \in 1..3 : chain[r][i] = Link

C10_Witness ==
  \E r, q \in Runs :
    /\ ret[r] = "threw" /\ trace[r] = <<"readFileSync">>
    /\ ret[q] = "threw" /\ trace[q] = <<"readFileSync", "statSync">>

\* The state of one run: its arguments, locals, calls, chain and log.
RunState(r) ==
  <<args[r], ret[r], thrown[r], mediaType[r], mediaData[r], mediaSize[r],
    mediaId[r], calls[r], chain[r], console[r], trace[r]>>

Failed(r) == \E i \in DOMAIN calls[r] : State(r, i) = "rejected"

C8_OwnSession ==
  \A r \in Runs : \A s \in Runs \ {r} :
    /\ \A i \in DOMAIN calls[s] :
         i >= 2 => GetProp(calls[s][i].options, "media_id")
                     = GetProp(Result(s, 1), "media_id_string")
    /\ Failed(r) =>
         /\ Ready(s, 1) => ENABLED thenInit(s)
         /\ Ready(s, 2) => ENABLED thenAppend(s)
         /\ Ready(s, 3) => ENABLED catchLog(s)

C8_Frame ==
  \A r \in Runs : \A s \in Runs \ {r} :
    RunState(r)' # RunState(r) => RunState(s)' = RunState(s)

\* C8: with several uploadPhoto runs interleaved, APPEND and FINALIZE of each
\* run carry the identifier of that run's own INIT, every step changes the
\* state of one run only, and a failed run leaves the callbacks of the others
\* enabled.
C8_Independent == []C8_OwnSession /\ [][C8_Frame]_vars

C8_Witness ==
  \E r \in Runs : \E s \in Runs \ {r} :
    /\ Len(calls[r]) = 2
    /\ GetProp(calls[r][2].options, "media_id") = Str("m1")
    /\ State(r, 2) = "rejected"
    /\ console[r] # <<>>
    /\ Len(calls[s]) = 3
    /\ GetProp(calls[s][3].options, "media_id") = Str("m2")
    /\ Returned(s) = [state |-> "fulfilled", value |-> Result(s, 3)]

----------------------------------------------------------------------------
\* Properties of the facade methods

\* The facade surface: method, endpoint path, verb.
TablePath(m) ==
  CASE m = "getRetweeters" -> "statuses/retweeters/ids"
    [] m = "getRetweets" -> "statuses/retweets"
    [] m = "showTweet" -> "statuses/show"
    [] m = "showUserTweets" -> "statuses/user_timeline"
    [] m = "searchTweets" -> "search/tweets"
    [] m = "searchUsers" -> "users/search"
    [] m = "showUser" -> "users/show"
    [] m = "postStatus" -> "statuses/update"
    [] m = "sendMessage" -> "direct_messages/events/new"

TableVerb(m) == IF m \in {"postStatus", "sendMessage"} THEN "post" ELSE "get"

\* C7: every facade invocation issues exactly one transport call, with the
\* verb and path of its table row and the caller's options, and returns that
\* call's promise, so it settles as the call does.
C7_Passthrough ==
  /\ Len(requests) = Len(facade)
  /\ \A k \in DOMAIN facade :
       /\ facade[k].returned = k
       /\ requests[k].verb = TableVerb(facade[k].method)
       /\ requests[k].path = TablePath(facade[k].method)
       /\ requests[k].options = facade[k].options

C7_Witness ==
  \E j \in DOMAIN facade : \E k \in DOMAIN facade :
    /\ facade[j].method = "sendMessage"
    /\ requests[facade[j].returned].promise.state = "rejected"
    /\ facade[k].method = "showTweet"
    /\ facade[k].options = Obj("id" :> Str("123"))
    /\ requests[facade[k].returned].promise
         = [state |-> "fulfilled", value |-> Obj("id_str" :> Str("t1"))]

====
